---- MODULE Spec2Model ----
(***************************************************************************)
(* Ledger and reconciliation engine of amplify-wallet.                     *)
(*                                                                         *)
(* The store is a document store with a unique index on                    *)
(* Transaction.idempotencyKey and on Wallet.userId, and multi-document     *)
(* sessions: writes made in a session stay private (and lock the documents *)
(* they touch) until commitTransaction; a session write to a document that *)
(* another session holds, or that changed since the session's snapshot,    *)
(* throws a write conflict; a write outside a session waits for the lock.  *)
(*                                                                         *)
(* Every request (topUpWallet, debitWalletForCampaign, fetchWalletBalance, *)
(* a payment_intent.succeeded / payment_intent.payment_failed delivery)    *)
(* runs on one of the tasks in Procs; each await of the source is a step.  *)
(***************************************************************************)
EXTENDS Integers, Sequences, FiniteSets, TLC

\* ---- bounds ------------------------------------------------------------
NumProcs == 2
MaxCalls == 3
NumKeys == 2
NumUsers == 1

MaxProviderEvents == 3

\* ---- program constants -------------------------------------------------
MIN_DEBIT == 100
CentsPerUnit == 100

Procs == 1..NumProcs
Keys == 1..NumKeys
Users == 1..NumUsers

TopUpAmounts == {1}
DebitAmounts == {50, 100, 200}
InitBalances == {0, 300}

\* ---- entities ----------------------------------------------------------
\* docs counts the Wallet documents that carry the userId
NoWallet ==
  [exists |-> FALSE, balance |-> 0, status |-> "NONE", ver |-> 0, docs |-> 0]

NewWallet ==
  [exists |-> TRUE, balance |-> 0, status |-> "ACTIVE", ver |-> 1, docs |-> 1]

NoRow == [status |-> "NONE", userId |-> 0, type |-> "NONE", amount |-> 0,
          key |-> 0, pi |-> 0, err |-> "none"]

Row(u, t, a, s, k, r, e) ==
  [status |-> s, userId |-> u, type |-> t, amount |-> a, key |-> k,
   pi |-> r, err |-> e]

NoArgs == [key |-> 0, pi |-> 0, user |-> 0, amt |-> 0]

Args(u, k, a, r) == [key |-> k, pi |-> r, user |-> u, amt |-> a]

NoResult == [kind |-> "none", code |-> "none", ref |-> 0, bal |-> 0]

Result(k, c, r, b) == [kind |-> k, code |-> c, ref |-> r, bal |-> b]

NoSession == [active |-> FALSE, ins |-> NoRow, upd |-> 0, wuser |-> 0,
              wdelta |-> 0, snap |-> [u \in Users |-> NoWallet]]

VARIABLES
  wallets,   \* Wallet collection: user -> wallet document (or NoWallet)
  txs,       \* Transaction collection: committed rows, in insertion order
  pis,       \* payment intents held by the gateway
  pc,        \* position of each task
  op,        \* operation each task is running
  args,      \* arguments of that operation
  loc,       \* locals of the task: paymentIntent, userWallet
  sess,      \* session of the task: snapshot and uncommitted writes
  result,    \* what the last operation of the task returned or threw
  calls,     \* number of operations started so far
  initBal,   \* history: balance of each user at the start
  applied,   \* history: net balance change committed on behalf of each row
  okDebits,  \* history: amounts of the debits that reported success
  faults,    \* history: the store has refused a commit
  users,     \* cached subscription and payment fields of each user
  stripeSub, \* the provider's subscription of each user
  outbox,    \* subscription events the provider has emitted
  ev,        \* the event (or cancellation request) each task is handling
  seen,      \* the user document that task has read
  request,   \* the signature header and raw body of the request of a task
  termSeq    \* history: the newest applied end-of-subscription event

vars == <<wallets, txs, pis, pc, op, args, loc, sess, result, calls,
          initBal, applied, okDebits, faults, users, stripeSub, outbox, ev, seen,
          request, termSeq>>

sub == <<users, stripeSub, outbox, ev, seen, request, termSeq>>

store == <<wallets, txs, applied>>

NoLoc == [pi |-> 0, piStatus |-> "none", uwBalance |-> 0]

\* ---- store primitives --------------------------------------------------

\* mutant: the index on idempotencyKey is not unique
KeyTakenNoIndex(k) == FALSE

\* unique sparse index on idempotencyKey: a committed row already carries
\* k; rows without a key (k = 0) are not in the index
KeyTaken(k) == k # 0 /\ \E i \in DOMAIN txs : txs[i].key = k

\* another session holds an uncommitted insert of k
KeyHeld(p, k) ==
  k # 0 /\ \E q \in Procs \ {p} : sess[q].ins.key = k /\ sess[q].ins # NoRow

\* another session holds an uncommitted write to the wallet of u
WalletHeld(p, u) == \E q \in Procs \ {p} : sess[q].wuser = u

\* another session holds an uncommitted update of row i
RowHeld(p, i) == \E q \in Procs \ {p} : sess[q].upd = i

\* the wallet of u changed after the session of p took its snapshot
WalletStale(p, u) == sess[p].snap[u].ver # wallets[u].ver

\* mutant: the idempotency check looks for a PENDING row
PendingWithKey(k) ==
  {i \in DOMAIN txs : txs[i].key = k /\ txs[i].status = "PENDING"}

\* rows a query {idempotencyKey, status: COMPLETED} finds
CompletedWithKey(k) ==
  {i \in DOMAIN txs : txs[i].key = k /\ txs[i].status = "COMPLETED"}

\* rows a query {userId, idempotencyKey} finds
RowsOfUserWithKey(u, k) ==
  {i \in DOMAIN txs : txs[i].userId = u /\ txs[i].key = k}

\* mutant: the query excludes COMPLETED rows only
NotCompletedWithPi(r) ==
  {i \in DOMAIN txs : txs[i].pi = r /\ txs[i].status # "COMPLETED"}

\* rows a query {metadata.paymentIntentId, status: PENDING} finds
PendingWithPi(r) ==
  {i \in DOMAIN txs : txs[i].pi = r /\ txs[i].status = "PENDING"}

\* mutant: the wallet update carries no userId in its filter and changes the
\* first Wallet document of the collection
CommitWalletsAnyUser(s) ==
  IF s.wuser = 0 THEN wallets
  ELSE LET f == CHOOSE u \in DOMAIN wallets :
                  wallets[u].exists /\ \A w \in DOMAIN wallets :
                                         wallets[w].exists => u <= w
       IN [wallets EXCEPT ![f].balance = @ + s.wdelta, ![f].ver = @ + 1]

\* the wallets and rows after the writes of session s are committed
CommitWallets(s) ==
  IF s.wuser = 0 THEN wallets
  ELSE [wallets EXCEPT ![s.wuser].balance = @ + s.wdelta,
                       ![s.wuser].ver = @ + 1]

CommitRows(s) ==
  LET upd == IF s.upd = 0 THEN txs
             ELSE [txs EXCEPT ![s.upd].status = "COMPLETED"]
  IN IF s.ins = NoRow THEN upd ELSE Append(upd, s.ins)

CommitApplied(s) ==
  LET upd == IF s.upd = 0 THEN applied
             ELSE [applied EXCEPT ![s.upd] = @ + s.wdelta]
  IN IF s.ins = NoRow THEN upd ELSE Append(upd, s.wdelta)

\* ---- task bookkeeping --------------------------------------------------

env == <<pis, calls, initBal, okDebits, faults, sub>>

\* move on to the next await of the same operation
Goto(p, l) ==
  /\ pc' = [pc EXCEPT ![p] = l]
  /\ UNCHANGED <<op, args, result>>

\* return or throw r: the session ends (an open transaction is aborted)
Finish(p, r) ==
  /\ pc' = [pc EXCEPT ![p] = "done"]
  /\ result' = [result EXCEPT ![p] = r]
  /\ sess' = [sess EXCEPT ![p] = NoSession]
  /\ op' = [op EXCEPT ![p] = "none"]
  /\ args' = [args EXCEPT ![p] = NoArgs]
  /\ loc' = [loc EXCEPT ![p] = NoLoc]

\* a request is taken by the lowest-numbered free task
Free(p) == pc[p] \in {"idle", "done"}

Begin(p, o, a, l) ==
  /\ Free(p)
  /\ \A q \in Procs : q < p => ~Free(q)
  /\ calls < MaxCalls
  /\ calls' = calls + 1
  /\ pc' = [pc EXCEPT ![p] = l]
  /\ op' = [op EXCEPT ![p] = o]
  /\ args' = [args EXCEPT ![p] = a]
  /\ result' = [result EXCEPT ![p] = NoResult]
  /\ UNCHANGED <<wallets, txs, pis, loc, sess, initBal, applied, okDebits,
                 faults, sub>>

\* the ledger after construction: users with or without a wallet, no rows
InitLedger ==
  /\ wallets \in [Users -> {NoWallet} \cup
                    {[exists |-> TRUE, balance |-> b, status |-> "ACTIVE",
                      ver |-> 1, docs |-> 1] : b \in InitBalances}]
  /\ txs = <<>>
  /\ pis = <<>>
  /\ pc = [p \in Procs |-> "idle"]
  /\ op = [p \in Procs |-> "none"]
  /\ args = [p \in Procs |-> NoArgs]
  /\ loc = [p \in Procs |-> NoLoc]
  /\ sess = [p \in Procs |-> NoSession]
  /\ result = [p \in Procs |-> NoResult]
  /\ calls = 0
  /\ initBal = [u \in Users |-> wallets[u].balance]
  /\ applied = <<>>
  /\ okDebits = [u \in Users |-> 0]
  /\ faults = FALSE

\* users that never subscribed: the defaults of the user schema
BlankUser ==
  [subId |-> 0, subStatus |-> "none", priceId |-> 0, periodEnd |-> 0,
   hasActive |-> FALSE, payStatus |-> "none", defaultPm |-> 0]

NoSub == [pstatus |-> "none", pcape |-> FALSE, pseq |-> 0]

\* a verified event as the handlers read it: type, customer, subscription,
\* status, cancel_at_period_end, position in the provider's history of the
\* subscription, payment method
Event(t, c, sb, st, cp, sq, pm) ==
  [etype |-> t, cust |-> c, esub |-> sb, estatus |-> st, ecape |-> cp,
   eseq |-> sq, epm |-> pm]

NoEvent == Event("none", 0, 0, "none", FALSE, 0, 0)

\* the arguments of handleIncomingEvent: the stripe-signature header (none,
\* or made with the endpoint's secret or without it) and whether the raw
\* body is there
NoRequest == [signature |-> "none", rawBody |-> FALSE]

NoSubscriptions ==
  /\ users = [u \in Users |-> BlankUser]
  /\ stripeSub = [u \in Users |-> NoSub]
  /\ outbox = {}
  /\ ev = [p \in Procs |-> NoEvent]
  /\ seen = [p \in Procs |-> BlankUser]
  /\ request = [p \in Procs |-> NoRequest]
  /\ termSeq = [u \in Users |-> 0]

Init == InitLedger /\ NoSubscriptions

\* ---- topUpWallet -------------------------------------------------------

GatewayAnswers ==
  {"succeeded", "requires_action", "requires_payment_method", "throws"}

StartTopUp(p) ==
  \E u \in Users, k \in Keys, a \in TopUpAmounts :
    Begin(p, "topUp", Args(u, k, a * CentsPerUnit, 0), "t_check")

\* findOne({idempotencyKey, status: COMPLETED}); return it when found
TopUpCheck(p) ==
  /\ pc[p] = "t_check"
  /\ IF args[p].key = 0
     THEN Finish(p, Result("error", "KEY_REQUIRED", 0, 0))
     ELSE IF CompletedWithKey(args[p].key) # {}
     THEN Finish(p, Result("tx", "COMPLETED",
                           CHOOSE i \in CompletedWithKey(args[p].key) : TRUE,
                           0))
     ELSE Goto(p, "t_charge") /\ UNCHANGED <<loc, sess>>
  /\ UNCHANGED <<store, env>>

\* the branch of topUpWallet taken on paymentIntent.status
BranchOnStatus(st) ==
  CASE st = "succeeded" -> "t_insert"
    [] st = "requires_action" \/ st = "processing" -> "t_pending"
    [] st = "requires_payment_method" -> "t_declined"

\* stripe.paymentIntents.create({confirm: true, off_session: true})
TopUpCharge(p) ==
  /\ pc[p] = "t_charge"
  /\ \E st \in GatewayAnswers :
       IF st = "throws"
       THEN /\ Goto(p, "t_failrec")
            /\ UNCHANGED <<pis, loc>>
       ELSE /\ pis' = Append(pis, [status |-> st, amount |-> args[p].amt,
                                   key |-> args[p].key,
                                   user |-> args[p].user])
            /\ loc' = [loc EXCEPT ![p].pi = Len(pis) + 1,
                                  ![p].piStatus = st]
            /\ Goto(p, BranchOnStatus(st))
  /\ UNCHANGED <<store, sess, calls, initBal, okDebits, faults, sub>>

\* session.startTransaction(); transactionModel.create([COMPLETED], {session})
TopUpInsert(p) ==
  /\ pc[p] = "t_insert"
  /\ IF KeyTaken(args[p].key) \/ KeyHeld(p, args[p].key)
     THEN Goto(p, "t_failrec") /\ UNCHANGED sess
     ELSE /\ sess' = [sess EXCEPT ![p] =
                 [NoSession EXCEPT !.active = TRUE, !.snap = wallets,
                    !.ins = Row(args[p].user, "TOP_UP", args[p].amt,
                                "COMPLETED", args[p].key, loc[p].pi, "none")]]
          /\ Goto(p, "t_credit")
  /\ UNCHANGED <<store, env, loc>>

\* walletModel.updateOne({userId}, {$inc: {balance}}, {session});
\* matchedCount === 0 throws InternalServerErrorException
TopUpCredit(p) ==
  /\ pc[p] = "t_credit"
  /\ LET u == args[p].user IN
     IF ~sess[p].snap[u].exists
     THEN Finish(p, Result("error", "WALLET_NOT_FOUND", 0, 0))
     ELSE IF WalletHeld(p, u) \/ WalletStale(p, u)
     THEN /\ Goto(p, "t_failrec")
          /\ sess' = [sess EXCEPT ![p] = NoSession]
          /\ UNCHANGED loc
     ELSE /\ sess' = [sess EXCEPT ![p].wuser = u, ![p].wdelta = args[p].amt]
          /\ Goto(p, "t_commit")
          /\ UNCHANGED loc
  /\ UNCHANGED <<store, env>>

\* session.commitTransaction(); return createdTransaction
TopUpCommit(p) ==
  /\ pc[p] = "t_commit"
  /\ \/ /\ wallets' = CommitWallets(sess[p])
        /\ txs' = CommitRows(sess[p])
        /\ applied' = CommitApplied(sess[p])
        /\ Finish(p, Result("tx", "COMPLETED", Len(txs) + 1, 0))
        /\ UNCHANGED faults
     \/ /\ faults' = TRUE
        /\ Goto(p, "t_failrec")
        /\ sess' = [sess EXCEPT ![p] = NoSession]
        /\ UNCHANGED <<store, loc>>
  /\ UNCHANGED <<pis, calls, initBal, okDebits, sub>>

\* a create() outside a session: waits while another session holds the key,
\* throws on a duplicate key, otherwise appends the row
InsertNow(p, row) ==
  /\ ~KeyHeld(p, row.key)
  /\ ~KeyTaken(row.key)
  /\ txs' = Append(txs, row)
  /\ applied' = Append(applied, 0)
  /\ UNCHANGED wallets

InsertThrows(p, row) ==
  /\ ~KeyHeld(p, row.key)
  /\ KeyTaken(row.key)
  /\ UNCHANGED store

\* transactionModel.create({PENDING, metadata.paymentIntentId}); return pending
TopUpPending(p) ==
  /\ pc[p] = "t_pending"
  /\ LET row == Row(args[p].user, "TOP_UP", args[p].amt, "PENDING",
                    args[p].key, loc[p].pi, "none") IN
     \/ /\ InsertNow(p, row)
        /\ Finish(p, Result("pending", loc[p].piStatus, loc[p].pi, 0))
     \/ /\ InsertThrows(p, row)
        /\ Goto(p, "t_failrec")
        /\ UNCHANGED <<loc, sess>>
  /\ UNCHANGED env

\* transactionModel.create({FAILED, metadata.errorMessage}); throw BadRequest
TopUpDeclined(p) ==
  /\ pc[p] = "t_declined"
  /\ LET row == Row(args[p].user, "TOP_UP", args[p].amt, "FAILED",
                    args[p].key, 0, "declined") IN
     \/ /\ InsertNow(p, row)
        /\ Finish(p, Result("error", "DECLINED", 0, 0))
     \/ /\ InsertThrows(p, row)
        /\ Goto(p, "t_failrec")
        /\ UNCHANGED <<loc, sess>>
  /\ UNCHANGED env

\* catch (error): transactionModel.create({FAILED}); throw 'Failed to top up'
TopUpFailRecord(p) ==
  /\ pc[p] = "t_failrec"
  /\ LET row == Row(args[p].user, "TOP_UP", args[p].amt, "FAILED",
                    args[p].key, 0, "none") IN
     \/ /\ InsertNow(p, row)
        /\ Finish(p, Result("error", "TOPUP_FAILED", 0, 0))
     \/ /\ InsertThrows(p, row)
        /\ Finish(p, Result("error", "STORE_ERROR", 0, 0))
  /\ UNCHANGED env

TopUpStep(p) ==
  \/ TopUpCheck(p) \/ TopUpCharge(p) \/ TopUpInsert(p) \/ TopUpCredit(p)
  \/ TopUpCommit(p) \/ TopUpPending(p) \/ TopUpDeclined(p)
  \/ TopUpFailRecord(p)

\* ---- createWalletForUser / fetchWalletBalance --------------------------

\* mutant: the Wallet collection without the unique index on userId
CanCreateWalletNoIndex(u) == TRUE

\* walletModel.create({userId, status: 'ACTIVE'}): balance defaults to 0;
\* the unique index on userId rejects a second wallet
CanCreateWallet(u) == ~wallets[u].exists

\* a second document with the userId leaves the one that findOne returns
CreateWallet(u) ==
  /\ wallets' = [wallets EXCEPT ![u] =
                   IF @.exists THEN [@ EXCEPT !.docs = @ + 1] ELSE NewWallet]
  /\ UNCHANGED <<txs, applied>>

StartFetch(p) ==
  \E u \in Users : Begin(p, "fetch", Args(u, 0, 0, 0), "b_find")

\* walletModel.findOne({userId})
FetchFind(p) ==
  /\ pc[p] = "b_find"
  /\ IF wallets[args[p].user].exists
     THEN Finish(p, Result("wallet", "FOUND", 0,
                           wallets[args[p].user].balance))
     ELSE Goto(p, "b_create") /\ UNCHANGED <<loc, sess>>
  /\ UNCHANGED <<store, env>>

\* createWalletForUser(userId)
FetchCreate(p) ==
  /\ pc[p] = "b_create"
  /\ IF CanCreateWallet(args[p].user)
     THEN /\ CreateWallet(args[p].user)
          /\ Finish(p, Result("wallet", "CREATED", 0, 0))
     ELSE /\ Finish(p, Result("error", "STORE_ERROR", 0, 0))
          /\ UNCHANGED store
  /\ UNCHANGED env

FetchStep(p) == FetchFind(p) \/ FetchCreate(p)

\* ---- debitWalletForCampaign --------------------------------------------

StartDebit(p) ==
  \E u \in Users, k \in Keys, a \in DebitAmounts :
    Begin(p, "debit", Args(u, k, a, 0), "d_check")

\* mutant: only the bound of the request body (@Min(1)) is applied
BelowMinimumDto(a) == a < 1

\* the business validation: debitData.amountInCents < 100
BelowMinimum(a) == a < MIN_DEBIT

\* amountInCents < 100 is rejected; findOne({userId, idempotencyKey})
DebitCheck(p) ==
  /\ pc[p] = "d_check"
  /\ IF BelowMinimum(args[p].amt)
     THEN Finish(p, Result("error", "INVALID_AMOUNT", 0, 0))
     ELSE IF RowsOfUserWithKey(args[p].user, args[p].key) # {}
     THEN Finish(p, Result("error", "DUPLICATE_TRANSACTION", 0, 0))
     ELSE Goto(p, "d_wallet") /\ UNCHANGED <<loc, sess>>
  /\ UNCHANGED <<store, env>>

\* walletModel.findOne({userId}); userWallet.status !== 'ACTIVE' is rejected
DebitWallet(p) ==
  /\ pc[p] = "d_wallet"
  /\ LET w == wallets[args[p].user] IN
     IF ~w.exists
     THEN Goto(p, "d_create") /\ UNCHANGED <<loc, sess>>
     ELSE IF w.status # "ACTIVE"
     THEN Finish(p, Result("error", "WALLET_INACTIVE", 0, 0))
     ELSE /\ loc' = [loc EXCEPT ![p].uwBalance = w.balance]
          /\ Goto(p, "d_update")
          /\ UNCHANGED sess
  /\ UNCHANGED <<store, env>>

\* userWallet = await this.createWalletForUser(debitData.userId)
DebitCreate(p) ==
  /\ pc[p] = "d_create"
  /\ IF CanCreateWallet(args[p].user)
     THEN /\ CreateWallet(args[p].user)
          /\ loc' = [loc EXCEPT ![p].uwBalance = 0]
          /\ Goto(p, "d_update")
          /\ UNCHANGED sess
     ELSE /\ Finish(p, Result("error", "STORE_ERROR", 0, 0))
          /\ UNCHANGED store
  /\ UNCHANGED env

\* mutant: the conditional update without the balance condition
DebitMatchesNoBalance(w, amt) == w.exists /\ w.status = "ACTIVE"

\* the filter of the conditional update:
\* {_id, balance: {$gte: amountInCents}, status: 'ACTIVE'}
DebitMatches(w, amt) == w.exists /\ w.balance >= amt /\ w.status = "ACTIVE"

\* session.startTransaction(); walletModel.updateOne(filter, {$inc: -amount},
\* {session}); matchedCount === 0 throws INSUFFICIENT_FUNDS
DebitUpdate(p) ==
  /\ pc[p] = "d_update"
  /\ LET u == args[p].user IN
     IF ~DebitMatches(wallets[u], args[p].amt)
     THEN Finish(p, Result("error", "INSUFFICIENT_FUNDS", 0, 0))
     ELSE IF WalletHeld(p, u)
     THEN Finish(p, Result("error", "STORE_ERROR", 0, 0))
     ELSE /\ sess' = [sess EXCEPT ![p] =
                 [NoSession EXCEPT !.active = TRUE, !.snap = wallets,
                                   !.wuser = u, !.wdelta = 0 - args[p].amt]]
          /\ Goto(p, "d_insert")
          /\ UNCHANGED loc
  /\ UNCHANGED <<store, env>>

\* mutant: the writes of an aborted session stay applied
AbortKeepsWrites(s) == CommitWallets(s)

\* session.abortTransaction() in the catch block: the wallets after the
\* writes of session s are discarded
AbortWallets(s) == wallets

\* transactionModel.create([COMPLETED CAMPAIGN_DEBIT], {session})
DebitInsert(p) ==
  /\ pc[p] = "d_insert"
  /\ IF KeyTaken(args[p].key) \/ KeyHeld(p, args[p].key)
     THEN /\ Finish(p, Result("error", "STORE_ERROR", 0, 0))
          /\ wallets' = AbortWallets(sess[p])
     ELSE /\ sess' = [sess EXCEPT ![p].ins =
                 Row(args[p].user, "CAMPAIGN_DEBIT", args[p].amt, "COMPLETED",
                     args[p].key, 0, "none")]
          /\ Goto(p, "d_commit")
          /\ UNCHANGED <<wallets, loc>>
  /\ UNCHANGED <<txs, applied, env>>

\* metadata.originalBalance: userWallet.balance, the balance read by findOne
OriginalBalance(p) == loc[p].uwBalance

\* metadata.newBalance and remainingBalance:
\* userWallet.balance - debitData.amountInCents
NewBalance(p) == loc[p].uwBalance - args[p].amt

\* session.commitTransaction(); return {transactionId, remainingBalance}
DebitCommit(p) ==
  /\ pc[p] = "d_commit"
  /\ \/ /\ wallets' = CommitWallets(sess[p])
        /\ txs' = CommitRows(sess[p])
        /\ applied' = CommitApplied(sess[p])
        /\ okDebits' = [okDebits EXCEPT ![args[p].user] = @ + args[p].amt]
        /\ Finish(p, Result("ok", "DEBITED", Len(txs) + 1, NewBalance(p)))
        /\ UNCHANGED faults
     \/ /\ faults' = TRUE
        /\ Finish(p, Result("error", "STORE_ERROR", 0, 0))
        /\ wallets' = AbortWallets(sess[p])
        /\ UNCHANGED <<txs, applied, okDebits>>
  /\ UNCHANGED <<pis, calls, initBal, sub>>

DebitStep(p) ==
  \/ DebitCheck(p) \/ DebitWallet(p) \/ DebitCreate(p) \/ DebitUpdate(p)
  \/ DebitInsert(p) \/ DebitCommit(p)

\* ---- payment_intent.succeeded / payment_intent.payment_failed ----------

\* the events the provider can deliver about its payment intents
SucceededEvents ==
  {r \in DOMAIN pis :
     pis[r].status \in {"succeeded", "requires_action", "processing"}}

FailedEvents ==
  {r \in DOMAIN pis :
     pis[r].status \in {"requires_action", "processing",
                        "requires_payment_method"}}

StartSucceeded(p) ==
  \E r \in SucceededEvents :
    Begin(p, "succeeded", Args(0, 0, pis[r].amount, r), "h_find")

StartFailed(p) ==
  \E r \in FailedEvents :
    Begin(p, "failed", Args(0, 0, pis[r].amount, r), "f_update")

\* mutant: the handlers' filter without the status condition
HookMatchesAnyStatus(r) == {i \in DOMAIN txs : txs[i].pi = r}

\* the filter of both handlers:
\* {'metadata.paymentIntentId': paymentIntent.id, status: PENDING}
HookMatches(r) == PendingWithPi(r)

\* session.startTransaction(); transactionModel.findOneAndUpdate(filter,
\* {$set: {status: COMPLETED}}, {session}); no match: abort and return
SucceededFind(p) ==
  /\ pc[p] = "h_find"
  /\ IF HookMatches(args[p].pi) = {}
     THEN Finish(p, Result("noop", "NOOP_SUCCEEDED", 0, 0))
     ELSE LET i == CHOOSE j \in HookMatches(args[p].pi) : TRUE IN
          IF RowHeld(p, i)
          THEN Finish(p, Result("error", "STORE_ERROR", 0, 0))
          ELSE /\ sess' = [sess EXCEPT ![p] =
                      [NoSession EXCEPT !.active = TRUE, !.snap = wallets,
                                        !.upd = i]]
               /\ Goto(p, "h_credit")
               /\ UNCHANGED loc
  /\ UNCHANGED <<store, env>>

\* walletModel.findOneAndUpdate({userId: existingTransaction.userId},
\* {$inc: {balance: paymentIntent.amount}}, {session}); result not inspected
SucceededCredit(p) ==
  /\ pc[p] = "h_credit"
  /\ LET u == txs[sess[p].upd].userId IN
     IF ~sess[p].snap[u].exists
     THEN Goto(p, "h_commit") /\ UNCHANGED <<loc, sess>>
     ELSE IF WalletHeld(p, u) \/ WalletStale(p, u)
     THEN Finish(p, Result("error", "STORE_ERROR", 0, 0))
     ELSE /\ sess' = [sess EXCEPT ![p].wuser = u, ![p].wdelta = args[p].amt]
          /\ Goto(p, "h_commit")
          /\ UNCHANGED loc
  /\ UNCHANGED <<store, env>>

\* session.commitTransaction()
SucceededCommit(p) ==
  /\ pc[p] = "h_commit"
  /\ \/ /\ wallets' = CommitWallets(sess[p])
        /\ txs' = CommitRows(sess[p])
        /\ applied' = CommitApplied(sess[p])
        /\ Finish(p, Result("ok", "RECONCILED", sess[p].upd, 0))
        /\ UNCHANGED faults
     \/ /\ faults' = TRUE
        /\ Finish(p, Result("error", "STORE_ERROR", 0, 0))
        /\ UNCHANGED store
  /\ UNCHANGED <<pis, calls, initBal, okDebits, sub>>

\* transactionModel.findOneAndUpdate(filter, {$set: {status: FAILED,
\* 'metadata.errorMessage': ...}}) outside a session
FailedUpdate(p) ==
  /\ pc[p] = "f_update"
  /\ IF HookMatches(args[p].pi) = {}
     THEN /\ Finish(p, Result("noop", "NOOP_FAILED", 0, 0))
          /\ UNCHANGED store
     ELSE LET i == CHOOSE j \in HookMatches(args[p].pi) : TRUE IN
          /\ ~RowHeld(p, i)
          /\ txs' = [txs EXCEPT ![i].status = "FAILED", ![i].err = "event"]
          /\ Finish(p, Result("ok", "MARKED_FAILED", i, 0))
          /\ UNCHANGED <<wallets, applied>>
  /\ UNCHANGED env

HookStep(p) ==
  \/ SucceededFind(p) \/ SucceededCredit(p) \/ SucceededCommit(p)
  \/ FailedUpdate(p)

\* ---- specifications ----------------------------------------------------

Start(p) ==
  \/ StartTopUp(p) \/ StartDebit(p) \/ StartFetch(p)
  \/ StartSucceeded(p) \/ StartFailed(p)

Next == \E p \in Procs : Start(p) \/ TopUpStep(p) \/ DebitStep(p)
                          \/ FetchStep(p) \/ HookStep(p)

Spec == Init /\ [][Next]_vars

\* replays of one debit: every call carries the same user and key
ReplayUser == CHOOSE u \in Users : TRUE

ReplayKey == CHOOSE k \in Keys : TRUE

StartDebitReplay(p) ==
  \E a \in DebitAmounts :
    Begin(p, "debit", Args(ReplayUser, ReplayKey, a, 0), "d_check")

NextDebitReplay == \E p \in Procs : StartDebitReplay(p) \/ DebitStep(p)

SpecDebitReplay == Init /\ [][NextDebitReplay]_vars

\* replays of one top-up: every call carries the same user and key
StartTopUpReplay(p) ==
  \E a \in TopUpAmounts :
    Begin(p, "topUp", Args(ReplayUser, ReplayKey, a * CentsPerUnit, 0),
          "t_check")

NextTopUpReplay == \E p \in Procs : StartTopUpReplay(p) \/ TopUpStep(p)

SpecTopUpReplay == Init /\ [][NextTopUpReplay]_vars

\* calls with and without the idempotency-key header (key 0: no header)
StartOptionalKey(p) ==
  \E k \in {0, ReplayKey} :
    \/ \E a \in TopUpAmounts :
         Begin(p, "topUp", Args(ReplayUser, k, a * CentsPerUnit, 0),
               "t_check")
    \/ \E a \in DebitAmounts :
         Begin(p, "debit", Args(ReplayUser, k, a, 0), "d_check")

NextOptionalKey ==
  \E p \in Procs : StartOptionalKey(p) \/ TopUpStep(p) \/ DebitStep(p)

SpecOptionalKey == Init /\ [][NextOptionalKey]_vars

\* ---- two users ----------------------------------------------------------
\* the ledger with two users, each with or without a wallet
NumFrameUsers == 2

FrameUsers == 1..NumFrameUsers

FrameBalances == {300}

InitFrame ==
  /\ wallets \in [FrameUsers -> {NoWallet} \cup
                    {[exists |-> TRUE, balance |-> b, status |-> "ACTIVE",
                      ver |-> 1, docs |-> 1] : b \in FrameBalances}]
  /\ txs = <<>>
  /\ pis = <<>>
  /\ pc = [p \in Procs |-> "idle"]
  /\ op = [p \in Procs |-> "none"]
  /\ args = [p \in Procs |-> NoArgs]
  /\ loc = [p \in Procs |-> NoLoc]
  /\ sess = [p \in Procs |-> NoSession]
  /\ result = [p \in Procs |-> NoResult]
  /\ calls = 0
  /\ initBal = [u \in FrameUsers |-> wallets[u].balance]
  /\ applied = <<>>
  /\ okDebits = [u \in FrameUsers |-> 0]
  /\ faults = FALSE
  /\ NoSubscriptions

\* calls of either user, and the events of the payment intents they created
StartFrame(p) ==
  \/ \E u \in FrameUsers, k \in Keys, a \in TopUpAmounts :
       Begin(p, "topUp", Args(u, k, a * CentsPerUnit, 0), "t_check")
  \/ \E u \in FrameUsers, k \in Keys :
       Begin(p, "debit", Args(u, k, MIN_DEBIT, 0), "d_check")
  \/ StartSucceeded(p)
  \/ StartFailed(p)

NextFrame ==
  \E p \in Procs : StartFrame(p) \/ TopUpStep(p) \/ DebitStep(p)
                     \/ HookStep(p)

SpecFrame == InitFrame /\ [][NextFrame]_vars

\* ---- wallets that are not ACTIVE ----------------------------------------
\* Wallet.status is one of ACTIVE, FROZEN, CLOSED. No handler of the service
\* writes it after createWalletForUser: it is changed on the shared Wallet
\* collection by the back office, with a plain update outside any session
\* (which waits while a session holds the document).
WalletStatuses == {"ACTIVE", "FROZEN", "CLOSED"}

InitStatus ==
  /\ wallets \in [Users -> {NoWallet} \cup
                    {[exists |-> TRUE, balance |-> b, status |-> st,
                      ver |-> 1, docs |-> 1] :
                       b \in InitBalances, st \in WalletStatuses}]
  /\ txs = <<>>
  /\ pis = <<>>
  /\ pc = [p \in Procs |-> "idle"]
  /\ op = [p \in Procs |-> "none"]
  /\ args = [p \in Procs |-> NoArgs]
  /\ loc = [p \in Procs |-> NoLoc]
  /\ sess = [p \in Procs |-> NoSession]
  /\ result = [p \in Procs |-> NoResult]
  /\ calls = 0
  /\ initBal = [u \in Users |-> wallets[u].balance]
  /\ applied = <<>>
  /\ okDebits = [u \in Users |-> 0]
  /\ faults = FALSE
  /\ NoSubscriptions

SetStatus(u, st) ==
  /\ wallets[u].exists
  /\ wallets[u].status # st
  /\ \A q \in Procs : sess[q].wuser # u
  /\ calls < MaxCalls
  /\ calls' = calls + 1
  /\ wallets' = [wallets EXCEPT ![u].status = st, ![u].ver = @ + 1]
  /\ UNCHANGED <<txs, pis, pc, op, args, loc, sess, result, initBal, applied,
                 okDebits, faults, sub>>

NextStatus ==
  \/ \E u \in Users, st \in WalletStatuses : SetStatus(u, st)
  \/ \E p \in Procs : \/ StartTopUp(p) \/ StartDebit(p) \/ StartSucceeded(p)
                       \/ TopUpStep(p) \/ DebitStep(p)
                       \/ SucceededFind(p) \/ SucceededCredit(p)
                       \/ SucceededCommit(p)

SpecStatus == InitStatus /\ [][NextStatus]_vars

\* ---- subscriptions at the provider --------------------------------------

\* the customer id of user u is u; an id no user carries
UnknownCustomer == 0

PaymentMethods == {1, 2}

Price == 1

Period == 1

IsActive(st) == st \in {"active", "trialing"}

\* paymentStatus as updateLocalUserSubscription derives it
CreatePaymentStatus(st) ==
  IF st = "past_due" THEN "past_due"
  ELSE IF IsActive(st) THEN "active" ELSE "none"

updateLocalUserSubscription(ur, st) ==
  [ur EXCEPT !.subId = 1, !.subStatus = st, !.priceId = Price,
             !.periodEnd = Period, !.hasActive = IsActive(st),
             !.payStatus = CreatePaymentStatus(st)]

\* the user after createSubscription without a payment method:
\* validatePaymentStatus throws on an incomplete subscription, before the
\* local update
createSubscription(st) ==
  IF st = "incomplete" THEN BlankUser
  ELSE updateLocalUserSubscription(BlankUser, st)

\* every user has a wallet and has subscribed once; nothing is delivered
InitSub ==
  /\ InitLedger
  /\ \A u \in Users : wallets[u].exists /\ wallets[u].balance = 0
  /\ \E st \in {"incomplete", "trialing"} :
       /\ users = [u \in Users |-> createSubscription(st)]
       /\ stripeSub = [u \in Users |->
                         [pstatus |-> st, pcape |-> FALSE, pseq |-> 0]]
  /\ outbox = {}
  /\ ev = [p \in Procs |-> NoEvent]
  /\ seen = [p \in Procs |-> BlankUser]
  /\ request = [p \in Procs |-> NoRequest]
  /\ termSeq = [u \in Users |-> 0]

\* the statuses a living subscription can move to
NextStatuses(st) ==
  CASE st = "incomplete" -> {"active"}
    [] st = "trialing" -> {"active"}
    [] st = "active" -> {"past_due", "paused"}
    [] st = "past_due" -> {"active", "unpaid"}
    [] st = "unpaid" -> {"active"}
    [] st = "paused" -> {"active"}
    [] OTHER -> {}

Alive(u) == stripeSub[u].pstatus \notin {"none", "canceled"}

\* what no step of the provider touches
local == <<wallets, txs, pis, pc, op, args, loc, sess, result, calls,
           initBal, applied, okDebits, faults, users, ev, seen, request,
           termSeq>>

\* the subscription changes status; the provider emits
\* customer.subscription.updated
ProviderStatus(u) ==
  /\ Alive(u)
  /\ stripeSub[u].pseq < MaxProviderEvents
  /\ \E st \in NextStatuses(stripeSub[u].pstatus) :
       /\ stripeSub' = [stripeSub EXCEPT ![u].pstatus = st,
                                         ![u].pseq = @ + 1]
       /\ outbox' = outbox \cup
            {Event("customer.subscription.updated", u, 1, st,
                   stripeSub[u].pcape, stripeSub[u].pseq + 1, 0)}
  /\ UNCHANGED local

\* the subscription is scheduled to end with the period (dashboard or
\* customer portal); the provider emits customer.subscription.updated
ProviderSchedule(u) ==
  /\ Alive(u)
  /\ stripeSub[u].pseq < MaxProviderEvents
  /\ ~stripeSub[u].pcape
  /\ stripeSub' = [stripeSub EXCEPT ![u].pcape = TRUE, ![u].pseq = @ + 1]
  /\ outbox' = outbox \cup
       {Event("customer.subscription.updated", u, 1, stripeSub[u].pstatus,
              TRUE, stripeSub[u].pseq + 1, 0)}
  /\ UNCHANGED local

\* the subscription ends; the end is notified as
\* customer.subscription.deleted or as an update with status canceled
ProviderCancel(u) ==
  /\ Alive(u)
  /\ stripeSub[u].pseq < MaxProviderEvents
  /\ stripeSub' = [stripeSub EXCEPT ![u].pstatus = "canceled",
                                    ![u].pseq = @ + 1]
  /\ \E t \in {"customer.subscription.deleted",
               "customer.subscription.updated"} :
       outbox' = outbox \cup
         {Event(t, u, 1, "canceled", stripeSub[u].pcape,
                stripeSub[u].pseq + 1, 0)}
  /\ UNCHANGED local

ProviderStep == \E u \in Users : ProviderStatus(u) \/ ProviderSchedule(u)
                                   \/ ProviderCancel(u)

\* ---- webhook handlers of subscriptions and payment methods --------------

\* mutant: the derivation of updateLocalUserSubscription, without unpaid
PaymentStatusNoUnpaid(st) ==
  IF st = "past_due" THEN "past_due"
  ELSE IF IsActive(st) THEN "active" ELSE "none"

\* paymentStatus as handleCustomerSubscriptionUpdated derives it for a
\* subscription that is not canceled
PaymentStatusOf(st) ==
  IF st = "past_due" THEN "past_due"
  ELSE IF st = "unpaid" THEN "past_due"
  ELSE IF IsActive(st) THEN "active" ELSE "none"

\* mutant: a scheduled cancellation deactivates at once
ScheduledInactive(st) == FALSE

\* hasActiveSubscription of a subscription scheduled to end with the period
ScheduledActive(st) == IsActive(st)

handleCustomerSubscriptionUpdated(ur, e) ==
  LET updateData == [ur EXCEPT !.subId = e.esub, !.subStatus = e.estatus,
                               !.priceId = Price, !.periodEnd = Period]
  IN IF e.estatus = "canceled"
     THEN [updateData EXCEPT !.subId = 0, !.priceId = 0, !.periodEnd = 0,
                             !.hasActive = FALSE, !.payStatus = "canceled"]
     ELSE IF e.ecape
     THEN [updateData EXCEPT !.hasActive = ScheduledActive(e.estatus),
                             !.payStatus = PaymentStatusOf(e.estatus)]
     ELSE [updateData EXCEPT !.hasActive = IsActive(e.estatus),
                             !.payStatus = PaymentStatusOf(e.estatus)]

\* mutant: the end of the subscription leaves the price and period cached
DeletedKeepsPrice(ur, e) ==
  [ur EXCEPT !.subId = 0, !.subStatus = "canceled", !.hasActive = FALSE,
             !.payStatus = "canceled"]

handleCustomerSubscriptionDeleted(ur, e) ==
  [ur EXCEPT !.subId = 0, !.subStatus = "canceled", !.priceId = 0,
             !.periodEnd = 0, !.hasActive = FALSE, !.payStatus = "canceled"]

\* ps is the subscription as stripe.subscriptions.retrieve returns it, ok is
\* whether the retrieve answered
handleInvoicePaid(ur, e, ps, ok) ==
  LET updateData == [ur EXCEPT !.payStatus = "active"]
  IN IF e.esub # 0 /\ ok
     THEN [updateData EXCEPT !.subId = e.esub, !.subStatus = ps.pstatus,
                             !.priceId = Price, !.periodEnd = Period,
                             !.hasActive = IsActive(ps.pstatus)]
     ELSE updateData

handleInvoicePaymentFailed(ur, e, ps, ok) ==
  LET updateData == [ur EXCEPT !.payStatus = "past_due"]
  IN IF e.esub # 0 /\ ok
     THEN IF ps.pstatus \in {"canceled", "unpaid", "past_due"}
          THEN [updateData EXCEPT !.subStatus = ps.pstatus,
                                  !.hasActive = FALSE]
          ELSE [updateData EXCEPT !.subStatus = ps.pstatus]
     ELSE updateData

\* sn is the user as findOne returned it, ok is whether
\* stripe.customers.update answered
handleSetupIntentSucceeded(sn, ur, e, ok) ==
  IF sn.defaultPm = 0 /\ ok THEN [ur EXCEPT !.defaultPm = e.epm] ELSE ur

handleCustomerUpdated(sn, ur, e) ==
  IF sn.defaultPm # e.epm THEN [ur EXCEPT !.defaultPm = e.epm] ELSE ur

\* the event types of the switch that read and write the user
UserEventTypes ==
  {"invoice.paid", "invoice.payment_failed", "customer.subscription.updated",
   "customer.subscription.deleted", "setup_intent.succeeded",
   "customer.updated"}

\* the handlers that ask the gateway
AsksGateway(e) ==
  \/ e.etype \in {"invoice.paid", "invoice.payment_failed"} /\ e.esub # 0
  \/ e.etype = "setup_intent.succeeded"

\* the switch of handleIncomingEvent, for a known customer
handleIncomingEvent(sn, ur, e, ps, ok) ==
  CASE e.etype = "invoice.paid" -> handleInvoicePaid(ur, e, ps, ok)
    [] e.etype = "invoice.payment_failed" ->
         handleInvoicePaymentFailed(ur, e, ps, ok)
    [] e.etype = "customer.subscription.updated" ->
         handleCustomerSubscriptionUpdated(ur, e)
    [] e.etype = "customer.subscription.deleted" ->
         handleCustomerSubscriptionDeleted(ur, e)
    [] e.etype = "setup_intent.succeeded" ->
         handleSetupIntentSucceeded(sn, ur, e, ok)
    [] e.etype = "customer.updated" -> handleCustomerUpdated(sn, ur, e)
    [] OTHER -> ur

\* events the provider can deliver at any time: invoices of the subscription
\* and a one-off invoice, payment-method changes, events about a customer no
\* user carries, and a type the switch does not list
StandingEvents ==
  {Event(t, u, 1, "none", FALSE, 0, 0) :
     t \in {"invoice.paid", "invoice.payment_failed"}, u \in Users}
  \cup {Event("invoice.paid", u, 0, "none", FALSE, 0, 0) : u \in Users}
  \cup {Event("customer.updated", u, 0, "none", FALSE, 0, pm) :
          u \in Users, pm \in {0, 1}}
  \cup {Event("setup_intent.succeeded", u, 0, "none", FALSE, 0, pm) :
          u \in Users, pm \in PaymentMethods}
  \cup {Event(t, UnknownCustomer, 1, "active", FALSE, 1, 1) :
          t \in {"invoice.paid", "customer.subscription.updated"}}
  \cup {Event("charge.refunded", u, 0, "none", FALSE, 0, 0) : u \in Users}

\* deliveries come in any order, any number of times
Deliverable == outbox \cup StandingEvents

\* an end-of-subscription notification
IsTerminalEvent(e) ==
  \/ e.etype = "customer.subscription.deleted"
  \/ e.etype = "customer.subscription.updated" /\ e.estatus = "canceled"

\* a request or delivery is taken by the lowest-numbered free task
Take(p, o, e, sn, l) ==
  /\ Free(p)
  /\ \A q \in Procs : q < p => ~Free(q)
  /\ calls < MaxCalls
  /\ calls' = calls + 1
  /\ pc' = [pc EXCEPT ![p] = l]
  /\ op' = [op EXCEPT ![p] = o]
  /\ ev' = [ev EXCEPT ![p] = e]
  /\ seen' = [seen EXCEPT ![p] = sn]
  /\ result' = [result EXCEPT ![p] = NoResult]
  /\ UNCHANGED <<wallets, txs, pis, args, loc, sess, initBal, applied,
                 okDebits, faults, users, stripeSub, outbox, request,
                 termSeq>>

\* the handlers whose write depends on the user they read
ReadsUser(e) == e.etype \in {"setup_intent.succeeded", "customer.updated"}

\* the answer to the provider: 200 {received: true} unless a handler threw
Acknowledge(e) ==
  IF e.etype \notin UserEventTypes
  THEN Result("noop", "UNHANDLED_TYPE", 0, 0)
  ELSE IF e.cust \notin Users
  THEN Result("noop", "UNKNOWN_CUSTOMER", 0, 0)
  ELSE Result("ok", "APPLIED", 0, 0)

\* the newest end-of-subscription event applied for the customer of e
Newest(e) ==
  [u \in Users |->
     IF u = e.cust /\ IsTerminalEvent(e) /\ e.eseq > termSeq[u]
     THEN e.eseq ELSE termSeq[u]]

\* handleIncomingEvent for an event whose handler reads the user only to
\* find it, for an unknown customer and for an unlisted type: the write
\* depends on the event and on the gateway's answer alone, so the delivery
\* is one step
Deliver(p) ==
  \E e \in Deliverable :
    /\ ~(ReadsUser(e) /\ e.cust \in Users)
    /\ Free(p)
    /\ \A q \in Procs : q < p => ~Free(q)
    /\ calls < MaxCalls
    /\ calls' = calls + 1
    /\ pc' = [pc EXCEPT ![p] = "done"]
    /\ result' = [result EXCEPT ![p] = Acknowledge(e)]
    /\ IF e.etype \in UserEventTypes /\ e.cust \in Users
       THEN /\ \E ok \in (IF AsksGateway(e) THEN BOOLEAN ELSE {TRUE}) :
                 users' = [users EXCEPT ![e.cust] =
                             handleIncomingEvent(BlankUser, @, e,
                                                 stripeSub[e.cust], ok)]
            /\ termSeq' = Newest(e)
       ELSE UNCHANGED <<users, termSeq>>
    /\ UNCHANGED <<wallets, txs, pis, op, args, loc, sess, initBal, applied,
                   okDebits, faults, stripeSub, outbox, ev, seen, request>>

\* setup_intent.succeeded and customer.updated of a known customer:
\* findOne({stripeCustomerId})
StartEvent(p) ==
  \E e \in Deliverable :
    /\ ReadsUser(e) /\ e.cust \in Users
    /\ Take(p, "event", e, users[e.cust], "e_write")

\* the gateway call of the handler, if it makes one, and
\* userModel.updateOne({stripeCustomerId}, {$set: updateData})
EventWrite(p) ==
  /\ pc[p] = "e_write"
  /\ LET e == ev[p]
     IN \E ok \in (IF AsksGateway(e) THEN BOOLEAN ELSE {TRUE}) :
          users' = [users EXCEPT ![e.cust] =
                      handleIncomingEvent(seen[p], @, e, stripeSub[e.cust],
                                          ok)]
  /\ Finish(p, Result("ok", "APPLIED", 0, 0))
  /\ ev' = [ev EXCEPT ![p] = NoEvent]
  /\ seen' = [seen EXCEPT ![p] = BlankUser]
  /\ UNCHANGED <<store, pis, calls, initBal, okDebits, faults, stripeSub,
                 outbox, request, termSeq>>

\* ---- cancelSubscription -------------------------------------------------

StartCancel(p) ==
  \E u \in Users, t \in {"cancelImmediately", "cancelAtPeriodEnd"} :
    Take(p, "cancel", Event(t, u, 0, "none", FALSE, 0, 0), BlankUser,
         "c_find")

\* findById, the checks, stripe.subscriptions.retrieve, then
\* stripe.subscriptions.cancel or update({cancel_at_period_end: true}); the
\* provider notifies the change as an event of its own
CancelFind(p) ==
  /\ pc[p] = "c_find"
  /\ LET u == ev[p].cust
         ps == stripeSub[u]
     IN IF users[u].subId = 0
        THEN /\ Finish(p, Result("error", "NO_SUBSCRIPTION", 0, 0))
             /\ ev' = [ev EXCEPT ![p] = NoEvent]
             /\ UNCHANGED <<stripeSub, outbox>>
        ELSE IF ps.pstatus = "canceled"
        THEN /\ Finish(p, Result("error", "ALREADY_CANCELLED", 0, 0))
             /\ ev' = [ev EXCEPT ![p] = NoEvent]
             /\ UNCHANGED <<stripeSub, outbox>>
        ELSE IF ev[p].etype = "cancelImmediately"
        THEN /\ stripeSub' = [stripeSub EXCEPT ![u].pstatus = "canceled",
                                               ![u].pseq = @ + 1]
             /\ outbox' = outbox \cup
                  {Event("customer.subscription.deleted", u, 1, "canceled",
                         ps.pcape, ps.pseq + 1, 0)}
             /\ ev' = [ev EXCEPT ![p].esub = users[u].subId,
                                 ![p].estatus = "canceled",
                                 ![p].ecape = ps.pcape]
             /\ Goto(p, "c_update")
             /\ UNCHANGED <<sess, loc>>
        ELSE /\ stripeSub' = [stripeSub EXCEPT ![u].pcape = TRUE,
                                               ![u].pseq = @ + 1]
             /\ outbox' = outbox \cup
                  {Event("customer.subscription.updated", u, 1, ps.pstatus,
                         TRUE, ps.pseq + 1, 0)}
             /\ ev' = [ev EXCEPT ![p].esub = users[u].subId,
                                 ![p].estatus = ps.pstatus,
                                 ![p].ecape = TRUE]
             /\ Goto(p, "c_update")
             /\ UNCHANGED <<sess, loc>>
  /\ UNCHANGED <<store, pis, calls, initBal, okDebits, faults, users, seen,
                 request, termSeq>>

\* c is the subscription as the gateway returned it
updateLocalUserAfterCancellation(ur, c) ==
  LET updateData == [ur EXCEPT !.subStatus = c.estatus]
  IN IF c.etype = "cancelImmediately" \/ c.estatus = "canceled"
     THEN [updateData EXCEPT !.subId = 0, !.priceId = 0, !.periodEnd = 0,
                             !.hasActive = FALSE, !.payStatus = "canceled"]
     ELSE IF c.ecape
     THEN [updateData EXCEPT !.hasActive = TRUE, !.payStatus = "active"]
     ELSE updateData

\* userModel.findByIdAndUpdate(userId, updateData)
CancelUpdate(p) ==
  /\ pc[p] = "c_update"
  /\ users' = [users EXCEPT ![ev[p].cust] =
                 updateLocalUserAfterCancellation(@, ev[p])]
  /\ Finish(p, Result("ok", "CANCELLED", 0, 0))
  /\ ev' = [ev EXCEPT ![p] = NoEvent]
  /\ UNCHANGED <<store, pis, calls, initBal, okDebits, faults, stripeSub,
                 outbox, seen, request, termSeq>>

CancelStep(p) == CancelFind(p) \/ CancelUpdate(p)

\* ---- deliveries of every kind -------------------------------------------

\* subscriptions only
NextSub ==
  \/ ProviderStep
  \/ \E p \in Procs : Deliver(p) \/ StartEvent(p) \/ EventWrite(p)
                        \/ StartCancel(p) \/ CancelStep(p)

SpecSub == InitSub /\ [][NextSub]_vars

\* one top-up and the events of the provider: charges, subscriptions,
\* payment methods
NextEvents ==
  \/ ProviderStep
  \/ \E p \in Procs : StartTopUpReplay(p) \/ TopUpStep(p)
                        \/ StartSucceeded(p) \/ StartFailed(p) \/ HookStep(p)
                        \/ Deliver(p) \/ StartEvent(p) \/ EventWrite(p)

SpecEvents == InitSub /\ [][NextEvents]_vars

\* ---- handleIncomingEvent: verification ----------------------------------

Signatures == {"none", "forged", "valid"}

\* mutant: constructEvent accepts every signature
SignaturePresent(rq) == rq.signature # "none" /\ rq.rawBody

\* the checks before the switch: the signature header is there, the raw
\* body is there, and stripe.webhooks.constructEvent accepts the signature
\* for the endpoint's secret
Verified(rq) == rq.signature = "valid" /\ rq.rawBody

\* the charge events of the payment intents; the object of the event is the
\* payment intent
ChargePayloads ==
  {Event("payment_intent.succeeded", 0, r, "none", FALSE, 0, 0) :
     r \in SucceededEvents}
  \cup {Event("payment_intent.payment_failed", 0, r, "none", FALSE, 0, 0) :
          r \in FailedEvents}

\* POST stripe/webhook: anyone can send any payload with any signature
StartRequest(p) ==
  \E sg \in Signatures, body \in BOOLEAN,
     e \in Deliverable \cup ChargePayloads :
    /\ Free(p)
    /\ \A q \in Procs : q < p => ~Free(q)
    /\ calls < MaxCalls
    /\ calls' = calls + 1
    /\ pc' = [pc EXCEPT ![p] = "w_verify"]
    /\ op' = [op EXCEPT ![p] = "webhook"]
    /\ ev' = [ev EXCEPT ![p] = e]
    /\ request' = [request EXCEPT ![p] =
                     [signature |-> sg, rawBody |-> body]]
    /\ result' = [result EXCEPT ![p] = NoResult]
    /\ UNCHANGED <<wallets, txs, pis, args, loc, sess, initBal, applied,
                   okDebits, faults, users, stripeSub, outbox, seen, termSeq>>

\* the three checks, then the switch: a charge event goes to its handler, an
\* event whose handler depends on the user it reads goes to its findOne, any
\* other event is handled at once
Verify(p) ==
  /\ pc[p] = "w_verify"
  /\ request' = [request EXCEPT ![p] = NoRequest]
  /\ LET e == ev[p] IN
     IF ~Verified(request[p])
     THEN /\ Finish(p, Result("error", "NOT_VERIFIED", 0, 0))
          /\ ev' = [ev EXCEPT ![p] = NoEvent]
          /\ UNCHANGED <<users, seen, termSeq>>
     ELSE IF e.etype \in {"payment_intent.succeeded",
                          "payment_intent.payment_failed"}
     THEN /\ pc' = [pc EXCEPT ![p] =
                      IF e.etype = "payment_intent.succeeded"
                      THEN "h_find" ELSE "f_update"]
          /\ op' = [op EXCEPT ![p] =
                      IF e.etype = "payment_intent.succeeded"
                      THEN "succeeded" ELSE "failed"]
          /\ args' = [args EXCEPT ![p] =
                        Args(0, 0, pis[e.esub].amount, e.esub)]
          /\ ev' = [ev EXCEPT ![p] = NoEvent]
          /\ UNCHANGED <<result, sess, loc, users, seen, termSeq>>
     ELSE IF ReadsUser(e) /\ e.cust \in Users
     THEN /\ pc' = [pc EXCEPT ![p] = "e_write"]
          /\ op' = [op EXCEPT ![p] = "event"]
          /\ seen' = [seen EXCEPT ![p] = users[e.cust]]
          /\ UNCHANGED <<args, result, sess, loc, ev, users, termSeq>>
     ELSE /\ Finish(p, Acknowledge(e))
          /\ ev' = [ev EXCEPT ![p] = NoEvent]
          /\ IF e.etype \in UserEventTypes /\ e.cust \in Users
             THEN /\ \E ok \in (IF AsksGateway(e) THEN BOOLEAN ELSE {TRUE}) :
                       users' = [users EXCEPT ![e.cust] =
                                   handleIncomingEvent(BlankUser, @, e,
                                                       stripeSub[e.cust], ok)]
                  /\ termSeq' = Newest(e)
             ELSE UNCHANGED <<users, termSeq>>
          /\ UNCHANGED seen
  /\ UNCHANGED <<store, pis, calls, initBal, okDebits, faults, stripeSub,
                 outbox>>

\* one top-up and requests of any origin
NextVerify ==
  \E p \in Procs : StartTopUpReplay(p) \/ TopUpStep(p) \/ StartRequest(p)
                     \/ Verify(p) \/ HookStep(p) \/ EventWrite(p)

SpecVerify == InitSub /\ [][NextVerify]_vars

\* ---- vocabulary of the properties --------------------------------------

SumAmounts(S) ==
  LET RECURSIVE Go(_)
      Go(T) == IF T = {} THEN 0
               ELSE LET i == CHOOSE j \in T : TRUE
                    IN txs[i].amount + Go(T \ {i})
  IN Go(S)

SumApplied(S) ==
  LET RECURSIVE Go(_)
      Go(T) == IF T = {} THEN 0
               ELSE LET i == CHOOSE j \in T : TRUE
                    IN applied[i] + Go(T \ {i})
  IN Go(S)

Completed(u, t) ==
  {i \in DOMAIN txs : txs[i].userId = u /\ txs[i].type = t
                        /\ txs[i].status = "COMPLETED"}

Terminal(r) == r.status \in {"COMPLETED", "FAILED"}

Quiescent == \A p \in Procs : Free(p)

\* ---- C1 ----------------------------------------------------------------
\* C1: conservation. In every reachable state the balance of a user's wallet
\* equals the initial balance plus the amounts of the user's COMPLETED TOP_UP
\* rows minus the amounts of the user's COMPLETED CAMPAIGN_DEBIT rows.
C1_Conservation ==
  \A u \in Users :
    wallets[u].exists =>
      wallets[u].balance = initBal[u] + SumAmounts(Completed(u, "TOP_UP"))
                             - SumAmounts(Completed(u, "CAMPAIGN_DEBIT"))

\* ---- C2 ----------------------------------------------------------------
\* C2: no overdraft. The balance is never negative, and the amounts of the
\* debits that reported success never exceed the funds that were available:
\* the initial balance plus the credits committed so far.
C2_NoOverdraft ==
  \A u \in Users :
    /\ wallets[u].balance >= 0
    /\ okDebits[u] <= initBal[u]
                        + SumApplied({i \in DOMAIN txs :
                                        txs[i].userId = u
                                        /\ txs[i].type = "TOP_UP"})

\* one debit has reported success and a later one was refused for lack of
\* funds although the wallet still holds money
C2_Witness ==
  \E u \in Users, p, q \in Procs :
    /\ result[p].code = "DEBITED"
    /\ result[q].code = "INSUFFICIENT_FUNDS"
    /\ okDebits[u] > 0
    /\ wallets[u].balance > 0
    /\ wallets[u].balance = initBal[u] - okDebits[u]

\* ---- C3 ----------------------------------------------------------------
ReplayedDebits ==
  {i \in DOMAIN txs : txs[i].key = ReplayKey /\ txs[i].userId = ReplayUser
                        /\ txs[i].type = "CAMPAIGN_DEBIT"
                        /\ txs[i].status = "COMPLETED"}

\* C3: replaying debitWalletForCampaign with one user and one key leaves at
\* most one COMPLETED CAMPAIGN_DEBIT row with that key and the balance is
\* decremented by exactly the amounts of those rows; a call that reports
\* success has its row; and once the calls have returned, if one of them had
\* a valid amount, the funds covered it and the store refused no commit,
\* exactly one such row is left.
C3_DebitReplayOnce ==
  /\ Cardinality(ReplayedDebits) <= 1
  /\ wallets[ReplayUser].balance
       = initBal[ReplayUser] - SumAmounts(ReplayedDebits)
  /\ \A p \in Procs : result[p].code = "DEBITED" => ReplayedDebits # {}
  /\ (/\ Quiescent /\ ~faults
      /\ \E p \in Procs : result[p].kind \in {"ok", "error"}
                             /\ result[p].code # "INVALID_AMOUNT"
      /\ \A a \in DebitAmounts : initBal[ReplayUser] >= a)
       => Cardinality(ReplayedDebits) = 1

\* a replay was refused as a duplicate, or lost the race for the wallet,
\* after the first call debited the wallet once
C3_Witness ==
  \E p, q \in Procs :
    /\ result[p].code = "DEBITED"
    /\ result[q].code \in {"DUPLICATE_TRANSACTION", "STORE_ERROR"}
    /\ Cardinality(ReplayedDebits) = 1
    /\ wallets[ReplayUser].balance < initBal[ReplayUser]


\* ---- C4 ----------------------------------------------------------------
ReplayedRows == {i \in DOMAIN txs : txs[i].key = ReplayKey}

\* C4: replaying topUpWallet with one key, whatever the gateway answers,
\* leaves at most one row with that key, credits the wallet at most once for
\* it, and once the calls have returned (and no charge is still pending)
\* there is exactly one row with that key, COMPLETED or FAILED.
C4_TopUpReplayOnce ==
  /\ Cardinality(ReplayedRows) <= 1
  /\ \A i \in ReplayedRows : applied[i] \in {0, txs[i].amount}
  /\ (Quiescent /\ calls > 0
        /\ \A i \in ReplayedRows : txs[i].status # "PENDING")
       => /\ Cardinality(ReplayedRows) = 1
          /\ \A i \in ReplayedRows : Terminal(txs[i])

\* ---- C5 ----------------------------------------------------------------
\* C5: no two rows carry the same idempotency key, so at most one row with a
\* given key is COMPLETED, whichever operation wrote the rows.
C5_UniqueKey ==
  /\ \A i, j \in DOMAIN txs : i # j => txs[i].key # txs[j].key
  /\ \A k \in Keys : Cardinality(CompletedWithKey(k)) <= 1

\* a top-up whose charge is pending found its key taken when it inserted
\* the PENDING row, and is now in the catch block
C5_Witness ==
  \E p \in Procs :
    /\ pc[p] = "t_failrec"
    /\ loc[p].piStatus = "requires_action"
    /\ KeyTaken(args[p].key)

\* ---- C6 ----------------------------------------------------------------
\* the steps of the synchronous top-up (after the charge succeeded), of the
\* campaign debit (after the wallet was read) and of the charge-succeeded
\* reconciliation
AtomicUnitStep(p) ==
  \/ pc[p] \in {"t_insert", "t_credit", "t_commit"}
  \/ pc[p] = "t_failrec" /\ loc[p].piStatus = "succeeded"
  \/ pc[p] \in {"d_update", "d_insert", "d_commit"}
  \/ pc[p] \in {"h_find", "h_credit", "h_commit"}

\* C6: a step of one of these operations makes the row and the balance change
\* visible together or makes neither visible.
C6_Atomicity ==
  [][\A p \in Procs :
       (AtomicUnitStep(p) /\ pc'[p] # pc[p])
         => ((txs' # txs) <=> (wallets' # wallets))]_vars

\* ---- C7 ----------------------------------------------------------------
\* C7: a charge-succeeded delivery that finds the PENDING TOP_UP row of its
\* reference completes the row and credits the owner with the amount, in the
\* same step; a delivery that finds no PENDING row changes nothing; no row is
\* ever credited more than once.
C7_SucceededOnce ==
  [][\A p \in Procs :
       (op[p] = "succeeded" /\ pc'[p] = "done")
         => /\ \A i \in DOMAIN txs :
                 (txs[i].status = "PENDING" /\ txs'[i].status = "COMPLETED")
                   => /\ wallets'[txs[i].userId].exists
                      /\ wallets'[txs[i].userId].balance
                           = wallets[txs[i].userId].balance + txs[i].amount
            /\ PendingWithPi(args[p].pi) = {}
                 => UNCHANGED <<wallets, txs>>
            /\ \A i \in DOMAIN txs : applied'[i] <= txs[i].amount]_vars

\* ---- C8 ----------------------------------------------------------------
Hooks == {"succeeded", "failed"}

\* C8: the first terminal event decides. Every step of a charge-succeeded or
\* charge-failed delivery whose reference already has a COMPLETED or FAILED
\* row changes neither wallets nor rows, and a FAILED row is never credited.
C8_FirstTerminalWins ==
  [][/\ \A p \in Procs :
          (op[p] \in Hooks /\ pc'[p] # pc[p]
             /\ \E i \in DOMAIN txs : txs[i].pi = args[p].pi
                                       /\ Terminal(txs[i]))
            => UNCHANGED <<wallets, txs, applied>>
     /\ \A i \in DOMAIN txs' : txs'[i].status = "FAILED" => applied'[i] = 0
    ]_vars

\* one task ran top-up, charge failed, charge succeeded in this order: the
\* row is FAILED by the event and the succeeded delivery was a no-op
C8_Witness ==
  \E p \in Procs :
    /\ result[p].code = "NOOP_SUCCEEDED"
    /\ \A q \in Procs \ {p} : pc[q] = "idle"
    /\ Len(pis) = 1
    /\ \E i \in DOMAIN txs : txs[i].status = "FAILED" /\ txs[i].err = "event"

\* ---- C9 ----------------------------------------------------------------
\* C9: no step deletes a row or changes a row's type, amount or userId, and
\* no step changes the status of a COMPLETED or FAILED row.
C9_TerminalImmutable ==
  [][/\ Len(txs') >= Len(txs)
     /\ \A i \in DOMAIN txs :
          /\ txs'[i].type = txs[i].type
          /\ txs'[i].amount = txs[i].amount
          /\ txs'[i].userId = txs[i].userId
          /\ Terminal(txs[i]) => txs'[i].status = txs[i].status
    ]_vars

\* one task ran top-up, charge succeeded, charge failed in this order: the
\* row is COMPLETED by the event and the failed delivery was a no-op
C9_Witness ==
  \E p \in Procs :
    /\ result[p].code = "NOOP_FAILED"
    /\ \A q \in Procs \ {p} : pc[q] = "idle"
    /\ Len(pis) = 1
    /\ \E i \in DOMAIN txs : /\ txs[i].status = "COMPLETED"
                             /\ pis[txs[i].pi].status = "requires_action"

\* ---- C10 ---------------------------------------------------------------
\* the charge of the top-up that task p runs succeeded at the gateway
Charged(p) ==
  /\ op[p] = "topUp"
  /\ loc[p].pi # 0
  /\ pis[loc[p].pi].status = "succeeded"

\* C10: a top-up whose charge succeeded neither returns an error nor records
\* a FAILED row.
C10_FailedOnlyIfNotCharged ==
  [][\A p \in Procs :
       Charged(p)
         => /\ ~(pc'[p] = "done" /\ result'[p].kind = "error")
            /\ ~(/\ pc[p] = "t_failrec" /\ Len(txs') > Len(txs)
                 /\ txs'[Len(txs')].status = "FAILED")]_vars

\* ---- C11 ---------------------------------------------------------------
\* C11: a topUpWallet call that reaches its idempotency check while a FAILED
\* row carries its key is recognised there: the check is the last step of the
\* call, no charge is requested from the gateway and neither the rows nor the
\* balances change.
C11_RetryRecognised ==
  [][\A p \in Procs :
       (/\ op[p] = "topUp" /\ pc[p] = "t_check" /\ pc'[p] # pc[p]
        /\ \E i \in DOMAIN txs : /\ txs[i].key = args[p].key
                                 /\ txs[i].status = "FAILED")
         => /\ pc'[p] = "done"
            /\ UNCHANGED <<wallets, txs, pis>>]_vars

\* ---- C12 ---------------------------------------------------------------
\* C12: a topUpWallet call that reaches its idempotency check while a
\* COMPLETED row carries its key returns that row at the check: it requests
\* no charge, adds no row and changes no balance.
C12_CompletedReplay ==
  [][\A p \in Procs :
       (/\ op[p] = "topUp" /\ pc[p] = "t_check" /\ pc'[p] # pc[p]
        /\ \E i \in DOMAIN txs : /\ txs[i].key = args[p].key
                                 /\ txs[i].status = "COMPLETED")
         => /\ pc'[p] = "done"
            /\ result'[p].kind = "tx"
            /\ result'[p].ref \in DOMAIN txs
            /\ txs[result'[p].ref].key = args[p].key
            /\ txs[result'[p].ref].status = "COMPLETED"
            /\ UNCHANGED <<wallets, txs, pis, applied>>]_vars

\* two calls carried the same key: both returned the same COMPLETED row, the
\* gateway was asked for one charge and the wallet was credited once
C12_Witness ==
  \E p, q \in Procs :
    /\ p # q
    /\ result[p].kind = "tx" /\ result[q].kind = "tx"
    /\ result[p].ref = result[q].ref
    /\ Len(pis) = 1 /\ Len(txs) = 1
    /\ \A u \in Users : wallets[u].balance = initBal[u] + txs[1].amount

\* ---- C13 ---------------------------------------------------------------
\* C13: while a PENDING row carries key k, no step of a topUpWallet call with
\* key k changes that row or adds a second row with k, and a call that
\* reaches its idempotency check does not go on to request a charge.
C13_PendingInFlight ==
  [][\A p \in Procs : \A i \in DOMAIN txs :
       (/\ op[p] = "topUp" /\ pc'[p] # pc[p]
        /\ txs[i].key = args[p].key /\ txs[i].status = "PENDING")
         => /\ txs'[i] = txs[i]
            /\ \A j \in DOMAIN txs' : txs'[j].key = txs[i].key => j = i
            /\ pc[p] = "t_check" => pc'[p] # "t_charge"]_vars

\* ---- C14 ---------------------------------------------------------------
\* C14: a debitWalletForCampaign call with a valid amount that ends while a
\* committed row carries its key, or while a concurrent debit is inserting a
\* row with its key, ends with DUPLICATE_TRANSACTION and its last step leaves
\* the wallets unchanged.
C14_DuplicateRejected ==
  [][\A p \in Procs :
       (/\ op[p] = "debit" /\ pc[p] # "done" /\ pc'[p] = "done"
        /\ args[p].amt >= MIN_DEBIT
        /\ \/ KeyTaken(args[p].key)
           \/ \E q \in Procs \ {p} : /\ op[q] = "debit"
                                      /\ sess[q].ins.key = args[p].key)
         => /\ result'[p].code = "DUPLICATE_TRANSACTION"
            /\ wallets' = wallets]_vars

\* ---- C15 ---------------------------------------------------------------
\* C15: a debitWalletForCampaign call that attempts its conditional update
\* with an amount above the committed balance ends there with
\* INSUFFICIENT_FUNDS: wallets and rows are unchanged and its session holds
\* no write.
C15_InsufficientFunds ==
  [][\A p \in Procs :
       (/\ op[p] = "debit" /\ pc[p] = "d_update" /\ pc'[p] # pc[p]
        /\ args[p].amt > wallets[args[p].user].balance)
         => /\ pc'[p] = "done"
            /\ result'[p].code = "INSUFFICIENT_FUNDS"
            /\ sess'[p] = NoSession
            /\ UNCHANGED <<wallets, txs, applied>>]_vars

\* a debit against a wallet of balance 0 was refused for lack of funds: the
\* balance is still 0 and no row was recorded
C15_Witness ==
  \E p \in Procs, u \in Users :
    /\ result[p].code = "INSUFFICIENT_FUNDS"
    /\ initBal[u] = 0 /\ wallets[u].exists /\ wallets[u].balance = 0
    /\ txs = <<>> /\ okDebits[u] = 0

\* ---- C18 ---------------------------------------------------------------
\* C18: whenever a debit or a credit is about to update a balance, the wallet
\* of the user exists; no call ends with wallet-not-found; and the owner of a
\* COMPLETED TOP_UP row has a wallet.
C18_AutoProvision ==
  /\ \A p \in Procs :
       /\ pc[p] \in {"d_update", "t_credit"} => wallets[args[p].user].exists
       /\ pc[p] = "h_credit" => wallets[txs[sess[p].upd].userId].exists
       /\ result[p].code # "WALLET_NOT_FOUND"
  /\ \A i \in DOMAIN txs :
       (txs[i].type = "TOP_UP" /\ txs[i].status = "COMPLETED")
         => wallets[txs[i].userId].exists

\* ---- C19 ---------------------------------------------------------------
\* C19: when a debit commits, the remainingBalance it returns (which is also
\* the recorded metadata.newBalance) is the committed balance after the
\* commit, and the recorded metadata.originalBalance is the committed balance
\* before it.
C19_AuditBalances ==
  [][\A p \in Procs :
       (/\ op[p] = "debit" /\ pc[p] = "d_commit"
        /\ result'[p].code = "DEBITED")
         => /\ result'[p].bal = wallets'[args[p].user].balance
            /\ NewBalance(p) = wallets'[args[p].user].balance
            /\ OriginalBalance(p) = wallets[args[p].user].balance]_vars

\* ---- C20 ---------------------------------------------------------------
\* C20: every step of a debitWalletForCampaign call whose amount is below the
\* minimum is its validation step: the call ends there with INVALID_AMOUNT
\* and wallets, rows and payment intents are unchanged.
C20_BelowMinimumRejected ==
  [][\A p \in Procs :
       (op[p] = "debit" /\ args[p].amt < MIN_DEBIT /\ pc'[p] # pc[p])
         => /\ pc[p] = "d_check" /\ pc'[p] = "done"
            /\ result'[p].kind = "error"
            /\ result'[p].code = "INVALID_AMOUNT"
            /\ UNCHANGED <<wallets, txs, applied, pis>>]_vars

\* a debit below the minimum was rejected for a user without a wallet: no
\* wallet was created and no row was recorded
C20_Witness ==
  \E p \in Procs :
    /\ result[p].code = "INVALID_AMOUNT"
    /\ \A u \in Users : ~wallets[u].exists
    /\ txs = <<>>

\* ---- C16 ---------------------------------------------------------------
\* C16: a step of a debitWalletForCampaign call that reads the wallet or
\* attempts the conditional update while the wallet is FROZEN or CLOSED ends
\* the call and changes neither wallets nor rows; no debit commits against a
\* wallet that is not ACTIVE; and the call ends with WALLET_INACTIVE (when
\* the balance would not cover the amount either, INSUFFICIENT_FUNDS is
\* accepted too).
C16_InactiveNotDebited ==
  [][\A p \in Procs :
       (/\ op[p] = "debit" /\ pc'[p] # pc[p]
        /\ pc[p] \in {"d_wallet", "d_update", "d_insert", "d_commit"}
        /\ wallets[args[p].user].status \in {"FROZEN", "CLOSED"})
         => /\ pc'[p] = "done"
            /\ UNCHANGED <<wallets, txs, applied>>
            /\ IF wallets[args[p].user].balance >= args[p].amt
               THEN result'[p].code = "WALLET_INACTIVE"
               ELSE result'[p].code \in {"WALLET_INACTIVE",
                                         "INSUFFICIENT_FUNDS"}]_vars

\* ---- C17 ---------------------------------------------------------------
\* C17: a credit (the commit of a synchronous top-up or of a charge-succeeded
\* reconciliation that wrote to a wallet) is applied to a wallet that is not
\* CLOSED and raises its balance by the amount; the balance of a CLOSED
\* wallet never changes.
C17_CreditUnlessClosed ==
  [][/\ \A p \in Procs :
          (/\ pc[p] \in {"t_commit", "h_commit"} /\ pc'[p] = "done"
           /\ result'[p].kind \in {"tx", "ok"} /\ sess[p].wuser # 0)
            => /\ wallets[sess[p].wuser].status # "CLOSED"
               /\ wallets'[sess[p].wuser].balance
                    = wallets[sess[p].wuser].balance + args[p].amt
     /\ \A u \in Users :
          wallets[u].status = "CLOSED"
            => wallets'[u].balance = wallets[u].balance]_vars

\* ---- C21 ---------------------------------------------------------------
\* C21: while a debit holds its decrement in its session the committed
\* balance is the one the conditional update saw, and a debit that fails
\* after the decrement ends with the wallets and the rows unchanged and with
\* no write left in its session.
C21_DebitRollback ==
  [][\A p \in Procs :
       (op[p] = "debit" /\ sess[p].wuser # 0)
         => /\ wallets[sess[p].wuser].balance
                 = sess[p].snap[sess[p].wuser].balance
            /\ (pc'[p] = "done" /\ result'[p].kind = "error")
                 => /\ UNCHANGED <<wallets, txs, applied>>
                    /\ sess'[p] = NoSession]_vars

\* the store refused the commit of a debit: the balance is the initial one
\* and no row exists
C21_Witness ==
  \E p \in Procs, u \in Users :
    /\ result[p].code = "STORE_ERROR"
    /\ faults /\ pis = <<>> /\ txs = <<>>
    /\ initBal[u] = 300 /\ wallets[u].balance = 300

\* ---- C22 ---------------------------------------------------------------
\* C22: the step of topUpWallet that follows an asynchronous answer of the
\* gateway appends one PENDING TOP_UP row carrying the key and the reference
\* of the charge, leaves the wallets unchanged and returns the pending status
\* with that reference; and nothing is credited for a row while it is
\* PENDING.
C22_PendingRecorded ==
  [][/\ \A p \in Procs :
          (pc[p] = "t_pending" /\ pc'[p] # pc[p])
            => /\ txs' = Append(txs, Row(args[p].user, "TOP_UP", args[p].amt,
                                         "PENDING", args[p].key, loc[p].pi,
                                         "none"))
               /\ wallets' = wallets
               /\ pc'[p] = "done"
               /\ result'[p].kind = "pending"
               /\ result'[p].ref = loc[p].pi
     /\ \A i \in DOMAIN txs' : txs'[i].status = "PENDING" => applied'[i] = 0
    ]_vars

\* ---- C23 ---------------------------------------------------------------
\* C23: when the gateway declined the charge or the call to the gateway
\* threw, the next step of topUpWallet appends a FAILED row that carries the
\* key and an error message, and leaves the wallets unchanged.
C23_GatewayErrorRecorded ==
  [][\A p \in Procs :
       (/\ pc'[p] # pc[p]
        /\ \/ pc[p] = "t_declined"
           \/ pc[p] = "t_failrec" /\ loc[p].piStatus = "none")
         => /\ Len(txs') = Len(txs) + 1
            /\ txs'[Len(txs')].status = "FAILED"
            /\ txs'[Len(txs')].key = args[p].key
            /\ txs'[Len(txs')].err # "none"
            /\ wallets' = wallets]_vars

\* ---- C24 ---------------------------------------------------------------
\* C24: a charge-failed delivery whose reference has a PENDING row makes that
\* row FAILED with an error message, keeps its reference, key, owner and
\* amount, and changes no other row and no wallet; a delivery whose reference
\* has no PENDING row changes nothing.
C24_FailedEvent ==
  [][\A p \in Procs :
       (op[p] = "failed" /\ pc'[p] # pc[p])
         => LET hit == {i \in DOMAIN txs : /\ txs[i].pi = args[p].pi
                                           /\ txs[i].status = "PENDING"}
            IN /\ wallets' = wallets /\ applied' = applied
               /\ hit = {} => txs' = txs
               /\ hit # {} =>
                    \E i \in hit :
                      txs' = [txs EXCEPT ![i].status = "FAILED",
                                         ![i].err = "event"]]_vars

\* a charge-failed delivery has marked the PENDING row of its reference
\* FAILED: the row keeps the reference and the balance is the initial one
C24_Witness ==
  \E p \in Procs :
    /\ result[p].code = "MARKED_FAILED"
    /\ txs[result[p].ref].status = "FAILED"
    /\ txs[result[p].ref].err = "event"
    /\ txs[result[p].ref].pi # 0
    /\ \A u \in Users : wallets[u].balance = initBal[u]

\* ---- C25 ---------------------------------------------------------------
\* C25: an event that matches nothing actionable changes nothing and is
\* acknowledged. Every step of a charge-succeeded or charge-failed delivery
\* whose reference has no PENDING row leaves wallets, rows and users as they
\* are and ends the delivery without an error; an event about an unknown
\* customer or of an unlisted type is answered as received, and the step
\* that answers so leaves wallets, rows and users as they are.
C25_NoopAcknowledged ==
  [][/\ \A p \in Procs :
          (op[p] \in Hooks /\ pc'[p] # pc[p]
             /\ \A i \in DOMAIN txs :
                  txs[i].pi = args[p].pi => txs[i].status # "PENDING")
            => /\ UNCHANGED <<wallets, txs, applied, users>>
               /\ pc'[p] = "done"
               /\ result'[p].kind = "noop"
     /\ \A e \in Deliverable :
          (e.etype \notin UserEventTypes \/ e.cust = UnknownCustomer)
            => Acknowledge(e).kind = "noop"
     /\ \A p \in Procs :
          (result'[p] # result[p] /\ result'[p].kind = "noop")
            => UNCHANGED <<wallets, txs, applied, users>>
    ]_vars

\* a charge-succeeded event found its row COMPLETED by the call itself and an
\* event about an unknown customer was delivered: both were acknowledged and
\* the balance holds the one credit
C25_Witness ==
  \E p, q \in Procs :
    /\ result[p].code = "NOOP_SUCCEEDED"
    /\ result[q].code = "UNKNOWN_CUSTOMER"
    /\ \E i \in DOMAIN txs : txs[i].status = "COMPLETED"
    /\ \A u \in Users :
         wallets[u].balance =
           initBal[u] + SumApplied({i \in DOMAIN txs : txs[i].userId = u})

\* ---- C26 ---------------------------------------------------------------
\* the cache of a subscription that has ended
Ended(ur) == ~ur.hasActive /\ ur.payStatus = "canceled" /\ ur.subId = 0

\* C26: no resurrection. A delivery that applies a subscription-updated event
\* older than an end-of-subscription event already applied for the same
\* customer leaves hasActiveSubscription false, paymentStatus canceled and
\* the cached subscription id cleared.
C26_NoResurrection ==
  [][\A e \in outbox :
       (/\ e.etype = "customer.subscription.updated"
        /\ e.eseq < termSeq[e.cust]
        /\ calls' = calls + 1
        /\ \E p \in Procs : result'[p].code = "APPLIED" /\ pc[p] # "e_write"
                               /\ pc'[p] = "done"
        /\ users'[e.cust] = handleCustomerSubscriptionUpdated(users[e.cust], e))
         => Ended(users'[e.cust])]_vars

\* ---- C27 ---------------------------------------------------------------
\* the cache after the subscription event e is delivered to a user whose
\* cache is ur
Applied(ur, e) ==
  handleIncomingEvent(ur, ur, e, stripeSub[e.cust], TRUE)

\* C27: convergence. For any two subscription updated or deleted events the
\* provider has emitted about one user, delivering them in one order and in
\* the other ends in the same cached fields.
C27_Convergent ==
  \A e1, e2 \in outbox :
    e1.cust = e2.cust
      => Applied(Applied(users[e1.cust], e1), e2)
           = Applied(Applied(users[e1.cust], e2), e1)

\* ---- C28 ---------------------------------------------------------------
\* C28: a replay is a no-op. In every state, for every deliverable event of
\* a handled type about a known customer and either answer of the gateway,
\* handling the event twice in a row leaves the cache that handling it once
\* leaves; and once a charge event has been applied to a row, no row of its
\* reference is PENDING and the row has been credited at most its amount, so
\* the same event delivered again finds nothing to apply.
C28_ReplayNoop ==
  /\ \A e \in Deliverable, ok \in BOOLEAN :
       (e.etype \in UserEventTypes /\ e.cust \in Users)
         => LET once == handleIncomingEvent(users[e.cust], users[e.cust], e,
                                            stripeSub[e.cust], ok)
            IN handleIncomingEvent(once, once, e, stripeSub[e.cust], ok)
                 = once
  /\ \A p \in Procs :
       result[p].code \in {"RECONCILED", "MARKED_FAILED"}
         => LET i == result[p].ref
            IN /\ \A j \in DOMAIN txs :
                    txs[j].pi = txs[i].pi => txs[j].status # "PENDING"
               /\ applied[i] <= txs[i].amount

\* one charge-succeeded event was delivered twice: the first delivery
\* completed the PENDING row and credited it, the second found nothing
C28_Witness ==
  \E p, q \in Procs :
    /\ result[p].code = "RECONCILED"
    /\ result[q].code = "NOOP_SUCCEEDED"
    /\ txs[result[p].ref].status = "COMPLETED"
    /\ applied[result[p].ref] = txs[result[p].ref].amount
    /\ Len(pis) = 1

\* ---- C29 ---------------------------------------------------------------
\* paymentStatus as the specification derives it from the status
ExpectedPaymentStatus(st) ==
  CASE st \in {"active", "trialing"} -> "active"
    [] st \in {"past_due", "unpaid"} -> "past_due"
    [] st = "canceled" -> "canceled"
    [] OTHER -> "none"

\* the step delivers e to a known customer and applies it
Applies(e) ==
  /\ e.cust \in Users
  /\ calls' = calls + 1
  /\ \E p \in Procs : /\ pc[p] # "e_write" /\ pc'[p] = "done"
                       /\ result'[p].code = "APPLIED"
  /\ users'[e.cust] = handleIncomingEvent(users[e.cust], users[e.cust], e,
                                          stripeSub[e.cust], TRUE)

\* C29: after a subscription-updated event with status s is applied,
\* hasActiveSubscription is true exactly for s active or trialing, and
\* paymentStatus is active for active and trialing, past_due for past_due
\* and unpaid, canceled for canceled and none for every other status.
C29_DerivedFields ==
  [][\A e \in Deliverable :
       (e.etype = "customer.subscription.updated" /\ Applies(e))
         => /\ users'[e.cust].hasActive
                 = (e.estatus \in {"active", "trialing"})
            /\ users'[e.cust].payStatus = ExpectedPaymentStatus(e.estatus)
            /\ users'[e.cust].subStatus = e.estatus]_vars

\* an update with status paused was applied: the subscription is cached as
\* paused, not active, with paymentStatus none and its id and price
C29_Witness ==
  \E u \in Users :
    /\ \E e \in outbox : /\ e.etype = "customer.subscription.updated"
                          /\ e.cust = u /\ e.estatus = "paused"
    /\ users[u].subStatus = "paused"
    /\ users[u].payStatus = "none"
    /\ ~users[u].hasActive
    /\ users[u].subId # 0
    /\ users[u].priceId = Price

C31_DeletedClears ==
  [][\A e \in Deliverable :
       (e.etype = "customer.subscription.deleted" /\ Applies(e))
         => /\ users'[e.cust] =
                 [subId |-> 0, subStatus |-> "canceled", priceId |-> 0,
                  periodEnd |-> 0, hasActive |-> FALSE,
                  payStatus |-> "canceled",
                  defaultPm |-> users[e.cust].defaultPm]
            /\ UNCHANGED <<wallets, txs, applied>>]_vars

\* the deleted event of a subscription that was cached as active with its id
\* and price has been applied: everything is cleared
C31_Witness ==
  \E u \in Users :
    /\ \E e \in outbox : e.etype = "customer.subscription.deleted"
                          /\ e.cust = u /\ termSeq[u] = e.eseq
    /\ users[u].subId = 0 /\ users[u].priceId = 0 /\ users[u].periodEnd = 0
    /\ users[u].subStatus = "canceled"
    /\ ~users[u].hasActive
    /\ users[u].payStatus = "canceled"

\* ---- C32 ---------------------------------------------------------------
\* C32: only verified events change state. The step that checks a request
\* without a signature header, without a raw body or with a signature not
\* made with the endpoint's secret ends the request with an error and
\* changes no wallet, no row and no user, whatever the payload is.
C32_OnlyVerified ==
  [][\A p \in Procs :
       (/\ pc[p] = "w_verify" /\ pc'[p] # "w_verify"
        /\ (request[p].signature # "valid" \/ ~request[p].rawBody))
         => /\ UNCHANGED <<wallets, txs, applied, users>>
            /\ pc'[p] = "done"
            /\ result'[p].kind = "error"]_vars

\* a request that did not pass the checks was rejected while a top-up was
\* PENDING: the row is still PENDING and nothing was credited
C32_Witness ==
  \E p \in Procs :
    /\ result[p].code = "NOT_VERIFIED"
    /\ \E i \in DOMAIN txs : txs[i].status = "PENDING" /\ applied[i] = 0
    /\ \A u \in Users : wallets[u].balance = initBal[u]
    /\ \A u \in Users : users[u].payStatus # "active"

\* ---- C33 ---------------------------------------------------------------
\* C33: no step leaves a user with more than one Wallet document, and a step
\* that gives a user a wallet leaves it with balance 0 and status ACTIVE.
C33_OneWalletPerUser ==
  [][\A u \in Users :
       /\ wallets'[u].docs <= 1
       /\ (~wallets[u].exists /\ wallets'[u].exists)
            => /\ wallets'[u].balance = 0
               /\ wallets'[u].status = "ACTIVE"
               /\ wallets'[u].docs = 1]_vars

\* two calls found no wallet and both went on to create one: one created
\* it, the other was refused by the index, and the user has one wallet
C33_Witness ==
  \E p, q \in Procs :
    /\ result[p].code = "CREATED"
    /\ result[q].code = "STORE_ERROR"
    /\ txs = <<>> /\ ~faults
    /\ \E u \in Users : /\ initBal[u] = 0
                         /\ wallets[u].docs = 1
                         /\ wallets[u].balance = 0
                         /\ wallets[u].status = "ACTIVE"

\* ---- C34 ---------------------------------------------------------------
\* C34: a call without a key bypasses deduplication. The first step of a
\* topUpWallet call without a key goes on to the charge, and the first step
\* of a debitWalletForCampaign call without a key and with an amount of at
\* least the minimum goes on to the wallet: neither is rejected for lacking
\* a key or matched against an earlier row without a key.
C34_UnkeyedProcessed ==
  [][\A p \in Procs :
       (args[p].key = 0 /\ pc'[p] # pc[p])
         => /\ (op[p] = "topUp" /\ pc[p] = "t_check") => pc'[p] = "t_charge"
            /\ (op[p] = "debit" /\ pc[p] = "d_check"
                  /\ args[p].amt >= MIN_DEBIT) => pc'[p] = "d_wallet"
    ]_vars

\* ---- C35 ---------------------------------------------------------------
\* the rows that record the charge r as a completed, credited top-up
RecordedCharge(r) ==
  {i \in DOMAIN txs : /\ txs[i].pi = r
                       /\ txs[i].type = "TOP_UP"
                       /\ txs[i].status = "COMPLETED"
                       /\ applied[i] = pis[r].amount}

\* C35: money is not lost. Whenever no call is in progress, every charge the
\* gateway answered as succeeded is recorded by exactly one COMPLETED TOP_UP
\* row of its reference, credited with the amount of the charge.
C35_MoneyNotLost ==
  Quiescent =>
    \A r \in DOMAIN pis :
      pis[r].status = "succeeded" => Cardinality(RecordedCharge(r)) = 1

\* ---- C36 ---------------------------------------------------------------
\* the topUpWallet call that created the charge r is still running
CallRunning(r) == \E q \in Procs : op[q] = "topUp" /\ loc[q].pi = r

\* C36: a synchronously succeeded charge whose charge-succeeded event is also
\* delivered is credited exactly once. Every step that ends the handling of a
\* charge-succeeded event for a charge the gateway answered as succeeded,
\* taken when the call that created the charge has ended, leaves exactly one
\* COMPLETED row of the reference, credited with the amount of the charge.
C36_SyncAndEventOnce ==
  [][\A p \in Procs :
       (/\ op[p] = "succeeded"
        /\ pc'[p] = "done"
        /\ pis[args[p].pi].status = "succeeded"
        /\ ~CallRunning(args[p].pi))
         => LET r == args[p].pi
                R == {i \in DOMAIN txs' : /\ txs'[i].pi = r
                                          /\ txs'[i].status = "COMPLETED"}
            IN /\ Cardinality(R) = 1
               /\ \A i \in R : applied'[i] = pis[r].amount
    ]_vars

\* ---- C37 ---------------------------------------------------------------
\* C37: one charge per key. No step creates a payment intent for a key while
\* a concurrent topUpWallet call that already created one for the same key is
\* still running and no Transaction of the key exists.
C37_OneChargePerKey ==
  [][Len(pis') = Len(pis) + 1 =>
       LET k == pis'[Len(pis')].key IN
       ~ /\ \A i \in DOMAIN txs : txs[i].key # k
         /\ \E r \in DOMAIN pis : pis[r].key = k /\ CallRunning(r)
    ]_vars

\* ---- C38 ---------------------------------------------------------------
\* C38: hasActiveSubscription is derived. In every reachable state, for every
\* user, hasActiveSubscription is true exactly when the cached
\* subscriptionStatus is active or trialing.
C38_HasActiveDerived ==
  \A u \in Users :
    users[u].hasActive <=> users[u].subStatus \in {"active", "trialing"}

\* ---- C39 ---------------------------------------------------------------
\* the user on whose behalf task p runs: the user of the call, or the user
\* of the payment intent of the event
Actor(p) ==
  IF op[p] \in {"topUp", "debit", "fetch"} THEN args[p].user
  ELSE IF op[p] \in Hooks THEN pis[args[p].pi].user
  ELSE 0

\* the rows of user v with what was credited or debited for each
RowsOf(v) ==
  [i \in {j \in DOMAIN txs : txs[j].userId = v} |-> <<txs[i], applied[i]>>]

\* C39: frame. A step of a top-up, a debit or a payment-intent event that
\* runs for one user changes neither the wallet (balance, status) nor the
\* Transactions of any other user.
C39_Frame ==
  [][\A p \in Procs, v \in FrameUsers :
       (pc'[p] # pc[p] /\ Actor(p) # 0 /\ Actor(p) # v)
         => /\ wallets'[v] = wallets[v]
            /\ RowsOf(v)' = RowsOf(v)
    ]_vars

\* both users have a wallet that changed and a COMPLETED row of their own
C39_Witness ==
  \A v \in FrameUsers :
    /\ wallets[v].exists
    /\ wallets[v].balance # initBal[v]
    /\ \E i \in DOMAIN txs : txs[i].userId = v /\ txs[i].status = "COMPLETED"

\* ---- C40 ---------------------------------------------------------------
\* C40: setup_intent.succeeded fills only an empty default. Every step in
\* which the handler of a setup_intent.succeeded event writes the user, taken
\* when the user already has a default payment method, leaves the cached
\* defaultPaymentMethod unchanged, also when another such event is being
\* handled at the same time.
C40_DefaultOnlyWhenNone ==
  [][\A p \in Procs :
       (/\ pc[p] = "e_write" /\ pc'[p] = "done"
        /\ ev[p].etype = "setup_intent.succeeded"
        /\ users[ev[p].cust].defaultPm # 0)
         => users'[ev[p].cust].defaultPm = users[ev[p].cust].defaultPm
    ]_vars

====
